---- MODULE Spec2Model ----
(***************************************************************************)
(* Request registry (BackgroundService), summarize orchestration           *)
(* (RefactorService.callLLMAPI) and the summary cache (SummaryCache) of    *)
(* the AI page summarizer extension.                                       *)
(*                                                                         *)
(* Every await of the TypeScript code is a suspension point: one action of *)
(* the model is the code that runs between two awaits.  A chrome.storage   *)
(* call takes effect in the step in which its await resumes.               *)
(***************************************************************************)
EXTENDS Integers, Sequences, FiniteSets, TLC

\* ------------------------------------------------------------------ bounds
MaxSubmits == 2
MaxChats == 1
MaxDays == 1
MaxSets == 4
SmallMaxSize == 2
MaxMessages == 3
MaxRequests == 2

\* ------------------------------------------------------- program constants
DEFAULT_MAX_CACHE_SIZE == 100
DEFAULT_CACHE_EXPIRY_DAYS == 1
DAY_MS == 86400000
maxAge == 1800000
DEFAULT_MAX_TOKENS == 1000
LARGE_CONTEXT_TOKENS == 100000
maxChunkSize == 50000

\* ------------------------------------------------------------ input domains
SuppliedIds == {101}
Tabs == {7, 8}
\* stored settings record; 0 stands for a missing (or zero) field
StoredSettings == {[cacheMaxSize |-> 0, cacheExpiryDays |-> 0],
                   [cacheMaxSize |-> SmallMaxSize, cacheExpiryDays |-> 2]}
\* the (url, language) pairs of the direct cache calls
CallKeys == {<<"u1", "chinese">>, <<"u1", "english">>, <<"u2", "chinese">>}
\* the instants Date.now() is read at.  With jobs created at 0 and at 1, the
\* instant maxAge + 1 is an age of maxAge + 1 and of exactly maxAge; with entries
\* stored at 0 and at 1, d days + 1 is an age of d days + 1 and of exactly d days
RegistryInstants == {0, 1, maxAge + 1}
CacheInstants == {0, 1} \cup {d * DAY_MS + 1 : d \in 1..MaxDays}

VARIABLES
  now,        \* Date.now()
  cache,      \* chrome.storage.local['summary_cache'], entries in object key order
  settings,   \* chrome.storage.local['settings']
  registry,   \* BackgroundService.pendingRequests: id -> object reference (0 = absent)
  job,        \* the PendingRequest objects, one per submission
  req,        \* the request each orchestration routine was started with
  pc,         \* the await each orchestration routine is suspended at
  loc,        \* local variables of each routine across its awaits
  nsub,       \* number of startLLMRequest calls so far
  reply,      \* what the 'startSummarize' handler sent back for each submission
  lastSeen,   \* last non-null status getRequestStatus returned, per id
  chat,       \* the chat calls (callChatAPI activations)
  contexts,   \* RefactorService.conversationContexts: per tab <<>> when the map has
              \* no context for it, else <<messages>>
  conv,       \* the callChatAPI activation followed through its backend calls
  fit,        \* an application of processLargeContext: arguments and return values
  popup,      \* the popup page: its React state, its poll timers, the calls it awaits
  recency,    \* keys in the order of their latest direct SummaryCache.set call
  nsets,      \* number of direct SummaryCache.set calls so far
  setsOnly,   \* TRUE while the direct set calls are all that has changed the cache
  last        \* the latest direct cache call or cleanup tick, what it returned and removed

vars == <<now, cache, settings, registry, job, req, pc, loc, nsub, reply,
          lastSeen, chat, contexts, conv, fit, popup, recency, nsets, setsOnly, last>>

\* ===================================================================== cache
NoEntry == [url |-> "", language |-> "", response |-> "", timestamp |-> 0, model |-> ""]

\* `${url}|${language}`: language is 'chinese' or 'english', so the string
\* determines the pair; the key is kept as the pair
createCacheKey(url, language) == <<url, language>>

entryKey(e) == createCacheKey(e.url, e.language)

\* index of the property `key` in the object, 0 when absent
IndexOf(c, key) ==
  IF \E i \in 1..Len(c) : entryKey(c[i]) = key
  THEN CHOOSE i \in 1..Len(c) : entryKey(c[i]) = key
  ELSE 0

\* cache[cacheKey], NoEntry for undefined
Lookup(c, key) == IF IndexOf(c, key) = 0 THEN NoEntry ELSE c[IndexOf(c, key)]

\* cache[cacheKey] = entry: an existing property keeps its place, a new one is appended
Put(c, key, e) ==
  IF IndexOf(c, key) = 0 THEN Append(c, e)
  ELSE [i \in 1..Len(c) |-> IF i = IndexOf(c, key) THEN e ELSE c[i]]

\* delete cache[cacheKey]
Delete(c, key) == SelectSeq(c, LAMBDA e : entryKey(e) # key)

\* settings.x || DEFAULT
getSettings(s) ==
  [cacheMaxSize |-> IF s.cacheMaxSize = 0 THEN DEFAULT_MAX_CACHE_SIZE ELSE s.cacheMaxSize,
   cacheExpiryDays |-> IF s.cacheExpiryDays = 0 THEN DEFAULT_CACHE_EXPIRY_DAYS ELSE s.cacheExpiryDays]

\* entries.sort((a, b) => a.timestamp - b.timestamp): stable insertion
InsertSorted(s, e) ==
  LET k == Cardinality({i \in 1..Len(s) : s[i].timestamp <= e.timestamp})
  IN SubSeq(s, 1, k) \o <<e>> \o SubSeq(s, k + 1, Len(s))

RECURSIVE SortByTimestamp(_)
SortByTimestamp(s) ==
  IF s = <<>> THEN <<>>
  ELSE InsertSorted(SortByTimestamp(SubSeq(s, 1, Len(s) - 1)), s[Len(s)])

\* entries.slice(0, n)
Slice0(s, n) == SubSeq(s, 1, IF n > Len(s) THEN Len(s) ELSE n)

\* an eviction that stops one entry early
Evict_keepsOneMore(c, maxSize) ==
  IF Len(c) > maxSize + 1
  THEN LET entriesToRemove == Slice0(SortByTimestamp(c), Len(c) - maxSize - 1)
           gone == {entryKey(entriesToRemove[i]) : i \in 1..Len(entriesToRemove)}
       IN SelectSeq(c, LAMBDA e : entryKey(e) \notin gone)
  ELSE c

\* the eviction of set: drop the entries.length - cacheMaxSize oldest entries
Evict(c, maxSize) ==
  IF Len(c) > maxSize
  THEN LET entriesToRemove == Slice0(SortByTimestamp(c), Len(c) - maxSize)
           gone == {entryKey(entriesToRemove[i]) : i \in 1..Len(entriesToRemove)}
       IN SelectSeq(c, LAMBDA e : entryKey(e) \notin gone)
  ELSE c

\* the entry set stores under the key
NewEntry(url, language, response, model, t) ==
  [url |-> url, language |-> language, response |-> response, timestamp |-> t, model |-> model]

\* an expiry test that already fails at exactly expiryDays
IsExpired_atLimit(e, t, days) == t >= e.timestamp + days * DAY_MS

\* now > entry.timestamp + cacheExpiryDays * 24 * 60 * 60 * 1000
IsExpired(e, t, days) == t > e.timestamp + days * DAY_MS

\* getStats().size
StatsSize(c) == Len(c)

\* SummaryCache.set between its storage read and its storage write
SetResult(c, s, t, url, language, response, model) ==
  Evict(Put(c, createCacheKey(url, language), NewEntry(url, language, response, model, t)),
        getSettings(s).cacheMaxSize)

\* SummaryCache.get run to completion: the value returned and the stored cache left behind
GetResult(c, s, t, url, language) ==
  LET key == createCacheKey(url, language)
      entry == Lookup(c, key)
  IN IF entry = NoEntry THEN [ret |-> "null", cache |-> c]
     ELSE IF IsExpired(entry, t, getSettings(s).cacheExpiryDays)
          THEN [ret |-> "null", cache |-> Delete(c, key)]
          ELSE [ret |-> entry.response, cache |-> c]

\* the keys ordered by their latest set call, oldest first
Touch(r, key) == Append(SelectSeq(r, LAMBDA k : k # key), key)

\* the record of a step: the operation, its arguments, the value it returned and
\* the number of entries it deleted
Op(op, id, url, language, ret, removed) ==
  [op |-> op, id |-> id, url |-> url, language |-> language, ret |-> ret, removed |-> removed]

registryVars == <<registry, job, req, pc, loc, nsub, reply, lastSeen>>
contextVars == <<conv, fit, popup>>
chatVars == <<chat, contexts, contextVars>>
cacheVars == <<cache, recency, nsets, setsOnly>>

\* ------------------------------------------- direct calls of the cache API
CacheGet(url, language) ==
  LET g == GetResult(cache, settings, now, url, language)
  IN /\ cache' = g.cache
     /\ setsOnly' = (setsOnly /\ g.cache = cache)
     /\ last' = Op("get", 0, url, language, g.ret, Len(cache) - Len(g.cache))
     /\ UNCHANGED <<now, settings, recency, nsets, registryVars, chatVars>>

CacheSet(url, language, response, model) ==
  /\ nsets < MaxSets
  /\ nsets' = nsets + 1
  /\ cache' = SetResult(cache, settings, now, url, language, response, model)
  /\ recency' = Touch(recency, createCacheKey(url, language))
  /\ last' = Op("set", 0, url, language, response,
                Len(Put(cache, createCacheKey(url, language), NoEntry)) - Len(cache'))
  /\ UNCHANGED <<now, settings, setsOnly, registryVars, chatVars>>

CacheRemove(url, language) ==
  /\ cache' = Delete(cache, createCacheKey(url, language))
  /\ setsOnly' = FALSE
  /\ last' = Op("remove", 0, url, language, "", Len(cache) - Len(cache'))
  /\ UNCHANGED <<now, settings, recency, nsets, registryVars, chatVars>>

CacheClear ==
  /\ cache' = <<>>
  /\ setsOnly' = FALSE
  /\ last' = Op("clear", 0, "", "", "", Len(cache))
  /\ UNCHANGED <<now, settings, recency, nsets, registryVars, chatVars>>

\* Date.now() moves on
Tick(t) ==
  /\ t > now
  /\ now' = t
  /\ UNCHANGED <<settings, cacheVars, registryVars, chatVars, last>>

\* ================================================================= registry
Objs == 1..MaxSubmits
AllIds == SuppliedIds \cup Objs

\* an LLMResponse; cachedAt -1 stands for undefined
Response(summary, error, fromCache, cachedAt) ==
  [summary |-> summary, error |-> error, fromCache |-> fromCache, cachedAt |-> cachedAt]
NoResult == Response("", "", FALSE, -1)

NoJob == [id |-> 0, tabUrl |-> "", status |-> "none", result |-> NoResult, error |-> "",
          timestamp |-> 0]
NoReq == [url |-> "", language |-> "", forceFresh |-> FALSE, model |-> ""]
NoLoc == [cache |-> <<>>, entry |-> NoEntry, summary |-> ""]

\* the requests the popup submits; url "" is a request without url
Requests ==
  {[url |-> "u1", language |-> "chinese", forceFresh |-> FALSE, model |-> "openai"],
   [url |-> "u1", language |-> "chinese", forceFresh |-> TRUE, model |-> "portkey"],
   [url |-> "u1", language |-> "english", forceFresh |-> FALSE, model |-> "claude"],
   [url |-> "", language |-> "chinese", forceFresh |-> FALSE, model |-> "portkey"]}

\* the await of the backend call callLLMAPI makes for the model
BackendAwait(model) ==
  CASE model = "claude" -> "claude"
    [] model = "portkey" -> "sdk"
    [] OTHER -> "openrouter"

\* a callLLMAPI that reads the cache whenever the request has a url
FirstAwait_ignoresForceFresh(request) ==
  IF request.url # "" THEN "get_read" ELSE BackendAwait(request.model)

\* callLLMAPI up to its first await: the cache is read when the request has a
\* url and does not force a fresh call
FirstAwait(request) ==
  IF request.url # "" /\ ~request.forceFresh THEN "get_read" ELSE BackendAwait(request.model)

\* generateRequestId: req_<Date.now()>_<random>, an id no earlier call produced
generateRequestId == nsub + 1

\* a continuation that ends without storing a terminal status
ResumeProcess_keepsProcessing(r, outcome) ==
  /\ job' = [job EXCEPT ![r] = [@ EXCEPT !.result = outcome.result]]
  /\ registry' = [registry EXCEPT ![job[r].id] = r]
  /\ pc' = [pc EXCEPT ![r] = "done"]
  /\ loc' = [loc EXCEPT ![r] = NoLoc]

\* processLLMRequest after `await callLLMAPI(request)`: the try branch stores the
\* result, the catch branch the message; both write the routine's own object
\* back under the id; the routine's locals die with it
ResumeProcess(r, outcome) ==
  /\ job' = [job EXCEPT ![r] =
                IF outcome.threw
                THEN [@ EXCEPT !.status = "error", !.error = outcome.message]
                ELSE [@ EXCEPT !.status = "completed", !.result = outcome.result]]
  /\ registry' = [registry EXCEPT ![job[r].id] = r]
  /\ pc' = [pc EXCEPT ![r] = "done"]
  /\ loc' = [loc EXCEPT ![r] = NoLoc]

\* callLLMAPI returns a response
Returned(result) == [threw |-> FALSE, result |-> result, message |-> ""]
\* callLLMAPI throws
Threw(message) == [threw |-> TRUE, result |-> NoResult, message |-> message]

\* the catch block of callLLMAPI: the error becomes a returned response
CatchLLM(message) == Returned(Response("", message, FALSE, -1))

\* a startLLMRequest that awaits processLLMRequest: nothing is sent back when it
\* suspends
startLLMRequest_awaits(request, requestId) ==
  LET id == IF requestId # 0 THEN requestId ELSE generateRequestId
      r == nsub + 1
      pendingRequest == [id |-> id, tabUrl |-> request.url, status |-> "pending",
                         result |-> NoResult, error |-> "", timestamp |-> now]
  IN /\ nsub < MaxSubmits
     /\ nsub' = r
     /\ registry' = [registry EXCEPT ![id] = r]
     /\ job' = [job EXCEPT ![r] = [pendingRequest EXCEPT !.status = "processing"]]
     /\ req' = [req EXCEPT ![r] = request]
     /\ pc' = [pc EXCEPT ![r] = FirstAwait(request)]
     /\ UNCHANGED <<now, settings, cacheVars, loc, reply, lastSeen, chatVars, last>>

\* a submission that returns before the routine has touched the job
startLLMRequest_leavesPending(request, requestId) ==
  LET id == IF requestId # 0 THEN requestId ELSE generateRequestId
      r == nsub + 1
      pendingRequest == [id |-> id, tabUrl |-> request.url, status |-> "pending",
                         result |-> NoResult, error |-> "", timestamp |-> now]
  IN /\ nsub < MaxSubmits
     /\ nsub' = r
     /\ registry' = [registry EXCEPT ![id] = r]
     /\ job' = [job EXCEPT ![r] = pendingRequest]
     /\ req' = [req EXCEPT ![r] = request]
     /\ pc' = [pc EXCEPT ![r] = FirstAwait(request)]
     /\ reply' = [reply EXCEPT ![r] = id]
     /\ UNCHANGED <<now, settings, cacheVars, loc, lastSeen, chatVars, last>>

\* startLLMRequest, with processLLMRequest and callLLMAPI run up to the first await
startLLMRequest(request, requestId) ==
  LET id == IF requestId # 0 THEN requestId ELSE generateRequestId
      r == nsub + 1
      pendingRequest == [id |-> id, tabUrl |-> request.url, status |-> "pending",
                         result |-> NoResult, error |-> "", timestamp |-> now]
  IN /\ nsub < MaxSubmits
     /\ nsub' = r
     /\ registry' = [registry EXCEPT ![id] = r]
     /\ job' = [job EXCEPT ![r] = [pendingRequest EXCEPT !.status = "processing"]]
     /\ req' = [req EXCEPT ![r] = request]
     /\ pc' = [pc EXCEPT ![r] = FirstAwait(request)]
     /\ reply' = [reply EXCEPT ![r] = id]
     /\ UNCHANGED <<now, settings, cacheVars, loc, lastSeen, chatVars, last>>

\* a sweep that spares the jobs still processing
Expired_sparesProcessing(t) ==
  {id \in AllIds : /\ registry[id] # 0
                   /\ t - job[registry[id]].timestamp > maxAge
                   /\ job[registry[id]].status \in {"completed", "error"}}

\* the jobs cleanupOldRequests deletes at time t
Expired(t) == {id \in AllIds : registry[id] # 0 /\ t - job[registry[id]].timestamp > maxAge}

\* one tick of the cleanup timer
cleanupOldRequests ==
  /\ registry' = [id \in AllIds |-> IF id \in Expired(now) THEN 0 ELSE registry[id]]
  /\ last' = Op("cleanup", 0, "", "", "", Cardinality(Expired(now)))
  /\ UNCHANGED <<now, settings, cacheVars, job, req, pc, loc, nsub, reply, lastSeen,
                 chatVars>>

\* what getRequestStatus(id) returns: the status of the registered object, or null
StatusOf(id) == IF registry[id] = 0 THEN "null" ELSE job[registry[id]].status

\* a lookup that takes a finished job out of the registry once it was read
getRequestStatus_deletesTerminal(id) ==
  /\ lastSeen' = [lastSeen EXCEPT ![id] = IF StatusOf(id) = "null" THEN @ ELSE StatusOf(id)]
  /\ registry' = [registry EXCEPT ![id] = IF StatusOf(id) \in {"completed", "error"} THEN 0 ELSE @]
  /\ UNCHANGED <<now, settings, cacheVars, job, req, pc, loc, nsub, reply, chatVars, last>>

getRequestStatus(id) ==
  /\ lastSeen' = [lastSeen EXCEPT ![id] = IF StatusOf(id) = "null" THEN @ ELSE StatusOf(id)]
  /\ UNCHANGED <<now, settings, cacheVars, registry, job, req, pc, loc, nsub, reply,
                 chatVars, last>>

\* ------------------------------------------- the orchestration routine's awaits
keyOf(r) == createCacheKey(req[r].url, req[r].language)
routineFrame == <<now, settings, nsub, req, reply, lastSeen, chatVars, last>>

\* callLLMAPI after the backend returned apiResponse: cache it when the request
\* has a url and the summary is non-empty, else return it
AfterBackend(r, summary) ==
  IF req[r].url # "" /\ summary # ""
  THEN /\ pc' = [pc EXCEPT ![r] = "set_read"]
       /\ loc' = [loc EXCEPT ![r].summary = summary]
       /\ UNCHANGED <<registry, job>>
  ELSE ResumeProcess(r, Returned(Response(summary, "", FALSE, -1)))

\* SummaryCache.get: the storage read returns
GetRead(r) ==
  /\ pc[r] = "get_read"
  /\ IF Lookup(cache, keyOf(r)) = NoEntry
     THEN pc' = [pc EXCEPT ![r] = BackendAwait(req[r].model)] /\ UNCHANGED loc
     ELSE /\ pc' = [pc EXCEPT ![r] = "get_settings"]
          /\ loc' = [loc EXCEPT ![r].entry = Lookup(cache, keyOf(r))]
  /\ UNCHANGED <<cacheVars, registry, job, routineFrame>>

\* a get whose hit is not taken: the routine calls the backend all the same
GetExpiry_ignoresHit(r) ==
  /\ pc[r] = "get_settings"
  /\ pc' = [pc EXCEPT ![r] =
       IF IsExpired(loc[r].entry, now, getSettings(settings).cacheExpiryDays) THEN "rm_read"
       ELSE BackendAwait(req[r].model)]
  /\ UNCHANGED <<cacheVars, registry, job, loc, routineFrame>>

\* SummaryCache.get: getSettings returns and the expiry is tested; a hit goes
\* on to getCacheEntry, an expired entry to remove
GetExpiry(r) ==
  /\ pc[r] = "get_settings"
  /\ pc' = [pc EXCEPT ![r] =
       IF IsExpired(loc[r].entry, now, getSettings(settings).cacheExpiryDays) THEN "rm_read"
       ELSE IF loc[r].entry.response # "" THEN "entry_read"
       ELSE BackendAwait(req[r].model)]
  /\ UNCHANGED <<cacheVars, registry, job, loc, routineFrame>>

\* SummaryCache.remove: the storage read returns and the key is deleted from the copy
RemoveRead(r) ==
  /\ pc[r] = "rm_read"
  /\ loc' = [loc EXCEPT ![r].cache = Delete(cache, keyOf(r))]
  /\ pc' = [pc EXCEPT ![r] = "rm_write"]
  /\ UNCHANGED <<cacheVars, registry, job, routineFrame>>

\* SummaryCache.remove: the copy is written; get returns null, a miss
RemoveWrite(r) ==
  /\ pc[r] = "rm_write"
  /\ cache' = loc[r].cache
  /\ setsOnly' = FALSE
  /\ pc' = [pc EXCEPT ![r] = BackendAwait(req[r].model)]
  /\ UNCHANGED <<recency, nsets, registry, job, loc, routineFrame>>

\* getCacheEntry: the second storage read of a cache hit returns
EntryRead(r) ==
  /\ pc[r] = "entry_read"
  /\ LET cacheEntry == Lookup(cache, keyOf(r))
     IN ResumeProcess(r, Returned(Response(loc[r].entry.response, "", TRUE,
                          IF cacheEntry = NoEntry THEN -1 ELSE cacheEntry.timestamp)))
  /\ UNCHANGED <<cacheVars, routineFrame>>

\* callClaudeAPI / callOpenRouterAPI: the fetch returns a completion
BackendReturns(r, summary) ==
  /\ pc[r] \in {"claude", "openrouter"}
  /\ AfterBackend(r, summary)
  /\ UNCHANGED <<cacheVars, routineFrame>>

\* callClaudeAPI / callOpenRouterAPI throw: callLLMAPI catches
BackendThrows(r) ==
  /\ pc[r] \in {"claude", "openrouter"}
  /\ ResumeProcess(r, CatchLLM("API request failed"))
  /\ UNCHANGED <<cacheVars, routineFrame>>

\* callPortkeyAPI: the SDK client returns a completion
SdkReturns(r, summary) ==
  /\ pc[r] = "sdk"
  /\ AfterBackend(r, summary)
  /\ UNCHANGED <<cacheVars, routineFrame>>

\* callPortkeyAPI: the SDK client throws and the raw fetch client is called
SdkThrows(r) ==
  /\ pc[r] = "sdk"
  /\ pc' = [pc EXCEPT ![r] = "fallback"]
  /\ UNCHANGED <<cacheVars, registry, job, loc, routineFrame>>

\* callPortkeyDirectAPI returns a completion
FallbackReturns(r, summary) ==
  /\ pc[r] = "fallback"
  /\ AfterBackend(r, summary)
  /\ UNCHANGED <<cacheVars, routineFrame>>

\* callPortkeyDirectAPI throws too: callPortkeyAPI rethrows, callLLMAPI catches
FallbackThrows(r) ==
  /\ pc[r] = "fallback"
  /\ ResumeProcess(r, CatchLLM("Portkey API request failed"))
  /\ UNCHANGED <<cacheVars, routineFrame>>

\* SummaryCache.set: the storage read returns and the new entry is added to the copy
SetRead(r) ==
  /\ pc[r] = "set_read"
  /\ loc' = [loc EXCEPT ![r].cache =
       Put(cache, keyOf(r),
           NewEntry(req[r].url, req[r].language, loc[r].summary, req[r].model, now))]
  /\ pc' = [pc EXCEPT ![r] = "set_settings"]
  /\ UNCHANGED <<cacheVars, registry, job, routineFrame>>

\* SummaryCache.set: getSettings returns and the oldest excess entries leave the copy
SetEvict(r) ==
  /\ pc[r] = "set_settings"
  /\ loc' = [loc EXCEPT ![r].cache = Evict(@, getSettings(settings).cacheMaxSize)]
  /\ pc' = [pc EXCEPT ![r] = "set_write"]
  /\ UNCHANGED <<cacheVars, registry, job, routineFrame>>

\* SummaryCache.set: the copy is written and callLLMAPI returns the response
SetWrite(r) ==
  /\ pc[r] = "set_write"
  /\ cache' = loc[r].cache
  /\ ResumeProcess(r, Returned(Response(loc[r].summary, "", FALSE, -1)))
  /\ setsOnly' = FALSE
  /\ UNCHANGED <<recency, nsets, routineFrame>>

\* ===================================================================== chat
Chats == 1..MaxChats
MessageLists == {<<"m1">>, <<"m1", "m2">>}
NoChat == [pc |-> "unused", tabId |-> 0, reply |-> NoResult]

\* a chat submission that is registered like a summarize job
chatMessage_registers(c, tabId, messages) ==
  /\ chat[c].pc = "unused"
  /\ \A d \in Chats : d < c => chat[d].pc # "unused"
  /\ chat' = [chat EXCEPT ![c] = [pc |-> "chat_backend", tabId |-> tabId, reply |-> NoResult]]
  /\ contexts' = IF tabId # 0 THEN [contexts EXCEPT ![tabId] = <<messages>>] ELSE contexts
  /\ registry' = [registry EXCEPT ![MaxSubmits] = MaxSubmits]
  /\ UNCHANGED <<now, settings, cacheVars, job, req, pc, loc, nsub, reply, lastSeen,
                 contextVars, last>>

\* onMessage 'chatMessage' -> callChatAPI up to its backend await: the messages
\* replace the tab's conversation context; no entry of pendingRequests is made
chatMessage(c, tabId, messages) ==
  /\ chat[c].pc = "unused"
  /\ \A d \in Chats : d < c => chat[d].pc # "unused"
  /\ chat' = [chat EXCEPT ![c] = [pc |-> "chat_backend", tabId |-> tabId, reply |-> NoResult]]
  /\ contexts' = IF tabId # 0 THEN [contexts EXCEPT ![tabId] = <<messages>>] ELSE contexts
  /\ UNCHANGED <<now, settings, cacheVars, registryVars, contextVars, last>>

\* the chat backend returns: the response is the reply to the message
ChatReturns(c, summary) ==
  /\ chat[c].pc = "chat_backend"
  /\ chat' = [chat EXCEPT ![c].pc = "done", ![c].reply = Response(summary, "", FALSE, -1)]
  /\ UNCHANGED <<now, settings, cacheVars, registryVars, contexts, contextVars, last>>

\* the chat backend throws: the catch block of callChatAPI returns the error
ChatThrows(c) ==
  /\ chat[c].pc = "chat_backend"
  /\ chat' = [chat EXCEPT ![c].pc = "done",
                          ![c].reply = Response("", "API request failed", FALSE, -1)]
  /\ UNCHANGED <<now, settings, cacheVars, registryVars, contexts, contextVars, last>>

\* ============================================================ large context
\* A string is a sequence of runs of equal characters: <<[ch |-> "a", n |-> 5]>>
\* is "aaaaa".  No run is empty and neighbouring runs differ in their character,
\* so two strings are equal exactly when their run sequences are.
RECURSIVE length(_)
length(text) == IF text = <<>> THEN 0 ELSE Head(text).n + length(Tail(text))

\* text.substring(0, end): a negative end counts as 0, an end past the text as
\* its length
RECURSIVE substring(_, _)
substring(text, end) ==
  IF end <= 0 \/ text = <<>> THEN <<>>
  ELSE IF Head(text).n >= end THEN <<[ch |-> Head(text).ch, n |-> end]>>
  ELSE <<Head(text)>> \o substring(Tail(text), end - Head(text).n)

\* s + t
concat(s, t) ==
  IF s # <<>> /\ t # <<>> /\ s[Len(s)].ch = t[1].ch
  THEN SubSeq(s, 1, Len(s) - 1) \o <<[ch |-> t[1].ch, n |-> s[Len(s)].n + t[1].n]>> \o Tail(t)
  ELSE s \o t

\* the literal '...'
Ellipsis == <<[ch |-> ".", n |-> 3]>>

\* n times the character ch
Repeat(ch, n) == IF n = 0 THEN <<>> ELSE <<[ch |-> ch, n |-> n]>>

\* Math.ceil(text.length / 4)
estimateTokens(text) == (length(text) + 3) \div 4

\* array.reverse()
Reverse(s) == [i \in 1..Len(s) |-> s[Len(s) + 1 - i]]

\* the for loop of processLargeContext over remainingMessages: a message that
\* fits is put at the front of processedMessages (unshift); the first one that
\* does not is cut to the characters left, gets '...' appended, is put at the
\* front, and ends the loop
RECURSIVE processRemaining(_, _, _, _)
processRemaining(remainingMessages, processedMessages, totalTokens, maxTokens) ==
  IF remainingMessages = <<>> THEN processedMessages
  ELSE
    LET message == Head(remainingMessages)
        messageTokens == estimateTokens(message.content)
        reservedTokens == maxTokens \div 3
        availableTokens == maxTokens - reservedTokens
        availableChars == (availableTokens - totalTokens) * 4
        truncatedContent == concat(substring(message.content, availableChars), Ellipsis)
    IN IF totalTokens + messageTokens <= availableTokens
       THEN processRemaining(Tail(remainingMessages), <<message>> \o processedMessages,
                             totalTokens + messageTokens, maxTokens)
       ELSE IF messageTokens > availableTokens - totalTokens
       THEN <<[role |-> message.role, content |-> truncatedContent]>> \o processedMessages
       ELSE processRemaining(Tail(remainingMessages), processedMessages, totalTokens, maxTokens)

\* a fit that keeps the leading system message only when it fits the budget
processLargeContext_dropsLargeSystem(messages, maxTokens) ==
  LET system == /\ messages # <<>> /\ messages[1].role = "system"
                /\ estimateTokens(messages[1].content) <= maxTokens - maxTokens \div 3
      remainingMessages == IF messages = <<>> THEN <<>> ELSE Reverse(Tail(messages))
  IN processRemaining(remainingMessages,
                      IF system THEN <<messages[1]>> ELSE <<>>,
                      IF system THEN estimateTokens(messages[1].content) ELSE 0,
                      maxTokens)

\* processLargeContext(messages, maxTokens): a leading system message is pushed
\* first and counted; the loop then runs over messages.slice(1).reverse()
processLargeContext(messages, maxTokens) ==
  LET system == messages # <<>> /\ messages[1].role = "system"
      remainingMessages == IF messages = <<>> THEN <<>> ELSE Reverse(Tail(messages))
  IN processRemaining(remainingMessages,
                      IF system THEN <<messages[1]>> ELSE <<>>,
                      IF system THEN estimateTokens(messages[1].content) ELSE 0,
                      maxTokens)

\* the content of the message at position i: its own character, repeated
Letter(i) == <<"a", "b", "c", "d", "e">>[i]
\* content lengths of 1, 2 and 5 estimated tokens
ContentLengths == {1, 8, 20}
\* maxTokens of the prompt configuration: 2, 4 and 8 tokens are available
Budgets == {3, 6, 12}
\* a conversation: the first message is a system or a user message, the later
\* ones are user and assistant messages
Conversations(lengths) ==
  UNION {{[i \in 1..n |-> [role |-> roles[i], content |-> Repeat(Letter(i), lens[i])]] :
            roles \in {rs \in [1..n -> {"system", "user", "assistant"}] :
                        /\ n > 0 => rs[1] # "assistant"
                        /\ \A i \in 2..n : rs[i] # "system"},
            lens \in [1..n -> lengths]} : n \in 0..MaxMessages}

NoFit == [pc |-> "none", messages |-> <<>>, maxTokens |-> 0, out |-> <<>>, again |-> <<>>]

\* processLargeContext is applied to the arguments
ApplyFit ==
  /\ fit.pc = "input"
  /\ fit' = [fit EXCEPT !.pc = "once", !.out = processLargeContext(fit.messages, fit.maxTokens)]
  /\ UNCHANGED <<now, settings, cacheVars, registryVars, chat, contexts, conv, popup, last>>

\* processLargeContext is applied to what it returned, with the same maxTokens
ApplyFitAgain ==
  /\ fit.pc = "once"
  /\ fit' = [fit EXCEPT !.pc = "twice", !.again = processLargeContext(fit.out, fit.maxTokens)]
  /\ UNCHANGED <<now, settings, cacheVars, registryVars, chat, contexts, conv, popup, last>>

\* ------------------------------------------------------------ callChatAPI
ChatModels == {"claude", "portkey", "openai"}
\* content lengths around the threshold: two messages add up to 400,000
\* characters (100,000 estimated tokens) and to 400,001 (100,001), three to
\* 600,000 and more
LargeLengths == {1, 199999, 200000, 200001}
\* the text callPortkeyDirectAPI returns for a summary of the earlier chunks
ChunkSummary == Repeat("s", 40)

NoConv == [pc |-> "idle", model |-> "", tabId |-> 0, messages |-> <<>>, path |-> "none",
           chunkedMessages |-> <<>>, i |-> 0, conversationSummary |-> <<>>,
           processedContext |-> <<>>, sent |-> <<>>, reply |-> NoResult]

\* messages.reduce((sum, msg) => sum + msg.content.length, 0)
RECURSIVE totalLength(_)
totalLength(messages) ==
  IF messages = <<>> THEN 0 ELSE length(Head(messages).content) + totalLength(Tail(messages))

\* the for loop of chunkLargeContext: a message that would take the current
\* chunk past maxChunkSize closes it, unless the chunk is empty
RECURSIVE chunkRemaining(_, _, _, _)
chunkRemaining(messages, chunks, currentChunk, currentChunkSize) ==
  IF messages = <<>>
  THEN IF currentChunk # <<>> THEN Append(chunks, currentChunk) ELSE chunks
  ELSE
    LET message == Head(messages)
        messageSize == length(message.content)
    IN IF currentChunkSize + messageSize > maxChunkSize /\ currentChunk # <<>>
       THEN chunkRemaining(Tail(messages), Append(chunks, currentChunk), <<message>>, messageSize)
       ELSE chunkRemaining(Tail(messages), chunks, Append(currentChunk, message),
                           currentChunkSize + messageSize)

\* a chunking that closes a chunk only after the message that overflows it
chunkLargeContext_closesLate(messages) ==
  LET chunks == chunkRemaining(messages, <<>>, <<>>, 0)
  IN IF Len(chunks) < 2 THEN chunks
     ELSE <<chunks[1] \o <<chunks[2][1]>>>>
          \o (IF Len(chunks[2]) > 1 THEN <<Tail(chunks[2])>> ELSE <<>>)
          \o SubSeq(chunks, 3, Len(chunks))

\* a chunking that forgets the chunk still open when the messages run out
chunkLargeContext_dropsOpenChunk(messages) ==
  LET chunks == chunkRemaining(messages, <<>>, <<>>, 0)
  IN SubSeq(chunks, 1, Len(chunks) - 1)

chunkLargeContext(messages) == chunkRemaining(messages, <<>>, <<>>, 0)

\* content lengths around maxChunkSize: empty, half a chunk, a whole chunk, one
\* character more
ChunkLengths == {0, 1, 25000, maxChunkSize, maxChunkSize + 1}

\* chunkLargeContext is applied to the arguments
ApplyChunk ==
  /\ fit.pc = "input"
  /\ fit' = [fit EXCEPT !.pc = "chunked", !.out = chunkLargeContext(fit.messages)]
  /\ UNCHANGED <<now, settings, cacheVars, registryVars, chat, contexts, conv, popup, last>>

\* integrateSummaryWithChunk for language 'chinese': a system message of 8
\* characters, the summary and 19 more characters goes in front of the chunk
integrateSummaryWithChunk(chunk, summary) ==
  IF summary = <<>> THEN chunk
  ELSE <<[role |-> "system",
          content |-> concat(concat(Repeat("p", 8), summary), Repeat("q", 19))]>> \o chunk

\* callPortkeyLargeContextAPI up to the await of the SDK call: the messages are
\* fitted to the budget of the prompt configuration and sent
PortkeyLargeContext(c, messages) ==
  [c EXCEPT !.pc = "sdk", !.sent = processLargeContext(messages, DEFAULT_MAX_TOKENS)]

\* handleExtremelyLargeContext, loop body for chunk i up to its first await: the
\* summary call when earlier chunks were processed, else the chunk's
\* completion call
ChunkIteration(c, i) ==
  IF i > Len(c.chunkedMessages)
  THEN [c EXCEPT !.pc = "done", !.i = i,
                 !.reply = Response("", "Failed to process large context", FALSE, -1)]
  ELSE IF i > 1 /\ c.processedContext # <<>>
  THEN [c EXCEPT !.pc = "summary", !.i = i]
  ELSE PortkeyLargeContext([c EXCEPT !.i = i],
                           integrateSummaryWithChunk(c.chunkedMessages[i], c.conversationSummary))

\* handleExtremelyLargeContext up to its first await
handleExtremelyLargeContext(c) ==
  IF (totalLength(c.messages) + 3) \div 4 < LARGE_CONTEXT_TOKENS
  THEN PortkeyLargeContext([c EXCEPT !.path = "direct"], c.messages)
  ELSE ChunkIteration([c EXCEPT !.path = "chunked",
                                !.chunkedMessages = chunkLargeContext(c.messages)], 1)

\* a chat call that adds its messages to the context the tab has
callChatAPI_mergesContext(model, tabId, messages) ==
  /\ conv.pc = "idle"
  /\ LET c == [NoConv EXCEPT !.model = model, !.tabId = tabId, !.messages = messages]
         totalChars == totalLength(messages)
         estimatedTokens == (totalChars + 3) \div 4
     IN conv' =
          IF model = "claude"
          THEN [c EXCEPT !.pc = "claude_chat", !.path = "single", !.sent = messages]
          ELSE IF model = "portkey"
          THEN IF estimatedTokens > LARGE_CONTEXT_TOKENS
               THEN handleExtremelyLargeContext(c)
               ELSE PortkeyLargeContext([c EXCEPT !.path = "direct"], messages)
          ELSE [c EXCEPT !.pc = "openrouter_chat", !.path = "single", !.sent = messages]
  /\ contexts' = IF tabId = 0 THEN contexts
                 ELSE IF contexts[tabId] = <<>> THEN [contexts EXCEPT ![tabId] = <<messages>>]
                 ELSE [contexts EXCEPT ![tabId] = <<contexts[tabId][1] \o messages>>]
  /\ UNCHANGED <<now, settings, cacheVars, registryVars, chat, fit, popup, last>>

\* callChatAPI up to its first await: the messages become the tab's context;
\* model 'claude' goes to callClaudeChatAPI and any model but 'portkey' to
\* callOpenRouterChatAPI, both with the messages as they are; model 'portkey'
\* takes the chunked path above the threshold and the direct path otherwise.
\* One activation is followed.
callChatAPI(model, tabId, messages) ==
  /\ conv.pc = "idle"
  /\ LET c == [NoConv EXCEPT !.model = model, !.tabId = tabId, !.messages = messages]
         totalChars == totalLength(messages)
         estimatedTokens == (totalChars + 3) \div 4
     IN conv' =
          IF model = "claude"
          THEN [c EXCEPT !.pc = "claude_chat", !.path = "single", !.sent = messages]
          ELSE IF model = "portkey"
          THEN IF estimatedTokens > LARGE_CONTEXT_TOKENS
               THEN handleExtremelyLargeContext(c)
               ELSE PortkeyLargeContext([c EXCEPT !.path = "direct"], messages)
          ELSE [c EXCEPT !.pc = "openrouter_chat", !.path = "single", !.sent = messages]
  /\ contexts' = IF tabId # 0 THEN [contexts EXCEPT ![tabId] = <<messages>>] ELSE contexts
  /\ UNCHANGED <<now, settings, cacheVars, registryVars, chat, fit, popup, last>>

\* callChatAPI(...).then(sendResponse): the reply goes back to the sender and
\* the activation is over
sendResponse ==
  /\ conv.pc = "done"
  /\ conv' = NoConv
  /\ UNCHANGED <<now, settings, cacheVars, registryVars, chat, contexts, fit, popup, last>>

\* getConversationContext(tabId): the context of the tab, or null (here <<>>)
getConversationContext(tabId) ==
  /\ last' = Op("getConversationContext", tabId, "", "", contexts[tabId], 0)
  /\ UNCHANGED <<now, settings, cacheVars, registryVars, chatVars>>

\* clearConversationContext(tabId)
clearConversationContext(tabId) ==
  /\ contexts' = [contexts EXCEPT ![tabId] = <<>>]
  /\ last' = Op("clearConversationContext", tabId, "", "", <<>>, 0)
  /\ UNCHANGED <<now, settings, cacheVars, registryVars, chat, contextVars>>

\* clearAllConversationContexts()
clearAllConversationContexts ==
  /\ contexts' = [t \in Tabs |-> <<>>]
  /\ last' = Op("clearAllConversationContexts", 0, "", "", <<>>, 0)
  /\ UNCHANGED <<now, settings, cacheVars, registryVars, chat, contextVars>>

\* a chunk loop that returns the answer of the first chunk
CompletionAnswered_returnsFirst(summary) ==
  [conv EXCEPT !.pc = "done", !.reply = Response(summary, "", FALSE, -1)]

\* a completion call of callPortkeyLargeContextAPI has answered: on the direct
\* path, and for the last chunk, the answer is the reply; for an earlier chunk
\* the chunk joins processedContext and the loop goes on
CompletionAnswered(summary) ==
  IF conv.path = "chunked"
  THEN LET c == [conv EXCEPT !.processedContext = @ \o conv.chunkedMessages[conv.i]]
       IN IF conv.i = Len(conv.chunkedMessages)
          THEN [c EXCEPT !.pc = "done", !.reply = Response(summary, "", FALSE, -1)]
          ELSE ChunkIteration(c, conv.i + 1)
  ELSE [conv EXCEPT !.pc = "done", !.reply = Response(summary, "", FALSE, -1)]

\* the SDK call returns
ChatSdkReturns(summary) ==
  /\ conv.pc = "sdk"
  /\ conv' = CompletionAnswered(summary)
  /\ UNCHANGED <<now, settings, cacheVars, registryVars, chat, contexts, fit, popup, last>>

\* the SDK call throws: callPortkeyDirectLargeContextAPI fits the same messages
\* to the budget and posts them
ChatSdkThrows ==
  /\ conv.pc = "sdk"
  /\ conv' = [conv EXCEPT !.pc = "fallback"]
  /\ UNCHANGED <<now, settings, cacheVars, registryVars, chat, contexts, fit, popup, last>>

\* the direct call returns
ChatFallbackReturns(summary) ==
  /\ conv.pc = "fallback"
  /\ conv' = CompletionAnswered(summary)
  /\ UNCHANGED <<now, settings, cacheVars, registryVars, chat, contexts, fit, popup, last>>

\* the direct call throws: the error passes the chunk loop, and the catch block
\* of callChatAPI turns it into the reply
ChatFallbackThrows ==
  /\ conv.pc = "fallback"
  /\ conv' = [conv EXCEPT !.pc = "done",
                          !.reply = Response("", "Portkey large context API request failed",
                                             FALSE, -1)]
  /\ UNCHANGED <<now, settings, cacheVars, registryVars, chat, contexts, fit, popup, last>>

\* the summary call for the chunks processed so far returns or throws: a summary
\* returned replaces conversationSummary, a failure leaves it; then the chunk,
\* with the summary in front, goes to its completion call
SummaryAnswered(threw) ==
  /\ conv.pc = "summary"
  /\ LET c == IF threw THEN conv ELSE [conv EXCEPT !.conversationSummary = ChunkSummary]
     IN conv' = PortkeyLargeContext(c, integrateSummaryWithChunk(c.chunkedMessages[c.i],
                                                                 c.conversationSummary))
  /\ UNCHANGED <<now, settings, cacheVars, registryVars, chat, contexts, fit, popup, last>>

\* callClaudeChatAPI or callOpenRouterChatAPI returns
SingleCallReturns(summary) ==
  /\ conv.pc \in {"claude_chat", "openrouter_chat"}
  /\ conv' = [conv EXCEPT !.pc = "done", !.reply = Response(summary, "", FALSE, -1)]
  /\ UNCHANGED <<now, settings, cacheVars, registryVars, chat, contexts, fit, popup, last>>

\* callClaudeChatAPI or callOpenRouterChatAPI throws
SingleCallThrows ==
  /\ conv.pc \in {"claude_chat", "openrouter_chat"}
  /\ conv' = [conv EXCEPT !.pc = "done",
                          !.reply = Response("", "API request failed", FALSE, -1)]
  /\ UNCHANGED <<now, settings, cacheVars, registryVars, chat, contexts, fit, popup, last>>

\* ==================================================================== popup
\* The popup page.  Summarize request k of the popup is answered with request
\* id k, and the interval timer started for it is timer k.
Activations == 1..MaxRequests

NoPopup ==
  [run |-> [k \in Activations |-> "idle"],     \* where summarizeCurrentPage k stands
   status |-> [k \in Activations |-> "none"],  \* the job of request k in the registry
   timers |-> {},             \* the interval timers that are set
   ref |-> 0,                 \* pollIntervalRef.current, 0 for null
   inflight |-> {},           \* request ids of the getRequestStatus messages awaited
   summary |-> 0,             \* the request whose summary is displayed, 0 for ''
   error |-> "",
   isLoading |-> FALSE,
   currentRequestId |-> 0]

popupFrame == <<now, settings, cacheVars, registryVars, chat, contexts, conv, fit, last>>

\* if (pollIntervalRef.current) { clearInterval(...); pollIntervalRef.current = null }
clearPoll(p) == [p EXCEPT !.timers = @ \ {p.ref}, !.ref = 0]

\* a startPollingRequest that sets its timer beside the one there is
startPollingRequest_keepsTimer(p, k) == [p EXCEPT !.timers = @ \cup {k}, !.ref = k]

\* startPollingRequest(requestId): the timer of the ref is cleared and a new
\* one set
startPollingRequest(p, k) == [p EXCEPT !.timers = (@ \ {p.ref}) \cup {k}, !.ref = k]

\* the button, while a request is loading: cancel
onClickCancel ==
  /\ popup.isLoading /\ popup.currentRequestId # 0
  /\ popup' = [clearPoll(popup) EXCEPT !.isLoading = FALSE, !.currentRequestId = 0,
                                       !.error = "Request cancelled"]
  /\ UNCHANGED popupFrame

\* the button otherwise, and the timer of the auto-summarize effect:
\* summarizeCurrentPage up to await loadCurrentTab()
summarizeCurrentPage(k) ==
  /\ ~(popup.isLoading /\ popup.currentRequestId # 0)
  /\ popup.run[k] = "idle" /\ \A j \in 1..(k - 1) : popup.run[j] # "idle"
  /\ popup' = [popup EXCEPT !.run[k] = "loadTab"]
  /\ UNCHANGED popupFrame

\* loadCurrentTab is back, the tab and the API key are good: the polling there
\* is is cleared, the display reset, and the page text is asked for
TabLoaded(k) ==
  /\ popup.run[k] = "loadTab"
  /\ popup' = [clearPoll(popup) EXCEPT !.run[k] = "extract", !.isLoading = TRUE,
                                       !.error = "", !.summary = 0]
  /\ UNCHANGED popupFrame

\* 'extractTabText' answers with a text long enough: 'startSummarize' is sent
Extracted(k) ==
  /\ popup.run[k] = "extract"
  /\ popup' = [popup EXCEPT !.run[k] = "start"]
  /\ UNCHANGED popupFrame

\* 'extractTabText' answers with nothing: the catch block
ExtractFails(k) ==
  /\ popup.run[k] = "extract"
  /\ popup' = [popup EXCEPT !.run[k] = "done", !.isLoading = FALSE,
                            !.error = "Could not extract text from the page"]
  /\ UNCHANGED popupFrame

\* 'startSummarize' answers with the request id: the job is registered and
\* processing; the popup saves its state
Started(k) ==
  /\ popup.run[k] = "start"
  /\ popup' = [popup EXCEPT !.run[k] = "save", !.status[k] = "processing",
                            !.currentRequestId = k]
  /\ UNCHANGED popupFrame

\* savePersistentState is back: startPollingRequest(requestId)
Saved(k) ==
  /\ popup.run[k] = "save"
  /\ popup' = startPollingRequest([popup EXCEPT !.run[k] = "done"], k)
  /\ UNCHANGED popupFrame

\* the job of request k ends in the service worker
JobEnds(k, outcome) ==
  /\ popup.status[k] = "processing"
  /\ popup' = [popup EXCEPT !.status[k] = outcome]
  /\ UNCHANGED popupFrame

\* cleanupOldRequests takes the job of request k out of the registry
JobRemoved(k) ==
  /\ popup.status[k] \in {"processing", "completed", "error"}
  /\ popup' = [popup EXCEPT !.status[k] = "gone"]
  /\ UNCHANGED popupFrame

\* timer k fires: the callback sends 'getRequestStatus' for its request id and
\* awaits the reply
TimerFires(k) ==
  /\ k \in popup.timers
  /\ popup' = [popup EXCEPT !.inflight = @ \cup {k}]
  /\ UNCHANGED popupFrame

\* the reply to 'getRequestStatus' for request k is there: the rest of the
\* timer callback
StatusReply(k) ==
  /\ k \in popup.inflight
  /\ LET p == [popup EXCEPT !.inflight = @ \ {k}]
         status == popup.status[k]
     IN popup' =
          IF status = "completed"
          THEN [clearPoll(p) EXCEPT !.isLoading = FALSE, !.summary = k, !.error = "",
                                    !.currentRequestId = 0]
          ELSE IF status = "error"
          THEN [clearPoll(p) EXCEPT !.isLoading = FALSE, !.error = "Request failed",
                                    !.currentRequestId = 0]
          ELSE IF status = "gone"
          THEN [clearPoll(p) EXCEPT !.isLoading = FALSE,
                                    !.error = "Request not found - it may have expired",
                                    !.currentRequestId = 0]
          ELSE p
  /\ UNCHANGED popupFrame

\* the state when the service worker starts, but for the arguments of
\* processLargeContext
InitService(stored, storedCache) ==
  /\ now = 0
  /\ cache = storedCache
  /\ settings = stored
  /\ registry = [id \in AllIds |-> 0]
  /\ job = [r \in Objs |-> NoJob]
  /\ req = [r \in Objs |-> NoReq]
  /\ pc = [r \in Objs |-> "unused"]
  /\ loc = [r \in Objs |-> NoLoc]
  /\ nsub = 0
  /\ reply = [r \in Objs |-> 0]
  /\ lastSeen = [id \in AllIds |-> "none"]
  /\ chat = [c \in Chats |-> NoChat]
  /\ contexts = [t \in Tabs |-> <<>>]
  /\ conv = NoConv
  /\ popup = NoPopup
  /\ recency = <<>>
  /\ nsets = 0
  /\ setsOnly = TRUE
  /\ last = Op("init", 0, "", "", "", 0)

\* the state when the service worker starts: chrome.storage.local holds the
\* settings and the cache record earlier runs left, everything else is new
InitFrom(stored, storedCache) ==
  /\ InitService(stored, storedCache)
  /\ fit = NoFit

\* the state after installation, whatever the stored settings record is
InitWith(stored) == InitFrom(stored, <<>>)

NoSettings == [cacheMaxSize |-> 0, cacheExpiryDays |-> 0]
Init == InitWith(NoSettings)
InitCache == \E stored \in StoredSettings : InitWith(stored)

\* the completion the backend returns to routine r: successive submissions get
\* different texts
Completion(r) == IF r % 2 = 1 THEN "s1" ELSE "s2"

\* ids a caller can pass as requestId: 0 for none, or an id of its own
CallerIds == {0} \cup SuppliedIds

\* the registry over less than a day: no cache entry expires, so the remove
\* steps of SummaryCache.get are never reached
Next ==
  \/ \E request \in Requests, requestId \in CallerIds : startLLMRequest(request, requestId)
  \/ \E r \in 1..nsub : getRequestStatus(reply[r])
  \/ cleanupOldRequests
  \/ \E t \in RegistryInstants : Tick(t)
  \/ \E r \in Objs : GetRead(r) \/ GetExpiry(r) \/ EntryRead(r)
                      \/ SetRead(r) \/ SetEvict(r) \/ SetWrite(r)
  \/ \E r \in Objs : BackendThrows(r) \/ SdkThrows(r) \/ FallbackThrows(r)
  \/ \E r \in Objs : BackendReturns(r, Completion(r)) \/ SdkReturns(r, Completion(r))
                      \/ FallbackReturns(r, Completion(r))

Spec == Init /\ [][Next]_vars

\* summarize and chat submissions side by side; the clock can jump past a day,
\* so that get finds an entry expired and removes it
NextChat ==
  \/ \E request \in Requests, requestId \in CallerIds : startLLMRequest(request, requestId)
  \/ \E r \in 1..nsub : getRequestStatus(reply[r])
  \/ \E r \in Objs : GetRead(r) \/ GetExpiry(r) \/ EntryRead(r)
                      \/ SetRead(r) \/ SetEvict(r) \/ SetWrite(r)
  \/ \E r \in Objs : BackendThrows(r) \/ SdkThrows(r) \/ FallbackThrows(r)
  \/ \E r \in Objs : BackendReturns(r, Completion(r)) \/ SdkReturns(r, Completion(r))
                      \/ FallbackReturns(r, Completion(r))
  \/ \E c \in Chats, tabId \in Tabs \cup {0}, messages \in MessageLists :
        chatMessage(c, tabId, messages)
  \/ \E c \in Chats : ChatReturns(c, "s1") \/ ChatThrows(c)
  \/ \E r \in Objs : RemoveRead(r) \/ RemoveWrite(r)
  \/ Tick(DAY_MS + 1)

SpecChat == Init /\ [][NextChat]_vars

\* the responses of the direct set calls alternate, so that an overwrite changes
\* the payload and two keys can hold the same payload
CallPayload(n) == IF n % 2 = 0 THEN "s1" ELSE "s2"

NextCache ==
  \/ \E k \in CallKeys : CacheGet(k[1], k[2])
  \/ \E k \in CallKeys : CacheSet(k[1], k[2], CallPayload(nsets), "openai")
  \/ \E k \in CallKeys : CacheRemove(k[1], k[2])
  \/ CacheClear
  \/ \E t \in CacheInstants : Tick(t)

SpecCache == InitCache /\ [][NextCache]_vars

\* ================================================================ properties
Keys(c) == {entryKey(c[i]) : i \in 1..Len(c)}
Min(a, b) == IF a < b THEN a ELSE b
LastN(s, n) == {s[i] : i \in (Len(s) - Min(n, Len(s)) + 1)..Len(s)}

Statuses == {"pending", "processing", "completed", "error"}
Terminal == {"completed", "error"}
Rank(status) ==
  CASE status = "none" -> 0
    [] status = "pending" -> 1
    [] status = "processing" -> 2
    [] OTHER -> 3

\* the step is a call of startLLMRequest
IsSubmit == nsub' = nsub + 1
\* the step is a direct call of SummaryCache.get (the clock stands still in it)
IsGet == last'.op = "get" /\ UNCHANGED <<now, settings, recency, nsets, nsub>>
\* the step is a cleanup tick
IsCleanup ==
  last'.op = "cleanup" /\ UNCHANGED <<now, job, pc, nsub, lastSeen, cache, chat, contextVars>>
\* the step is the one in which routine r stores its outcome and ends
Finishes(r) == pc[r] \notin {"unused", "done"} /\ pc'[r] = "done"
\* the age of the job registered under id
Age(id) == now - job[registry[id]].timestamp

\* C1: the statuses successive getRequestStatus(id) calls return never move
\* backwards along pending -> processing -> {completed | error} and never
\* leave completed or error
C1_JobMonotonic ==
  [][\A id \in AllIds :
       lastSeen'[id] # lastSeen[id] =>
         /\ lastSeen[id] \notin Terminal
         /\ Rank(lastSeen[id]) < Rank(lastSeen'[id])]_vars

\* C2: when the backend call of a summarize job fails (for Portkey, after the
\* fallback client failed too) the job ends in status error with a non-empty
\* message in Job.error, never in completed
C2_BackendFailureIsError ==
  [][\A r \in Objs :
       (BackendThrows(r) \/ FallbackThrows(r)) =>
         job'[r].status = "error" /\ job'[r].error # ""]_vars

\* C3: a routine that resumes after the sweeper deleted its job does not put
\* the job back: the id stays absent from the registry
C3_SweptJobStaysSwept ==
  [][\A r \in Objs :
       Finishes(r) /\ registry[job[r].id] = 0 => registry'[job[r].id] = 0]_vars

\* C4: startLLMRequest never replaces an entry that already exists under the
\* id it is given
C4_SingleWriter ==
  [][IsSubmit => \A id \in AllIds : registry[id] # 0 => registry'[id] = registry[id]]_vars

\* C5: after a cleanup tick at time t the registry holds no job with
\* t - createdAt > 30 minutes, whatever its status, and the tick has removed
\* no job with t - createdAt <= 30 minutes
C5_Sweeper ==
  [][IsCleanup =>
       \A id \in AllIds :
         /\ registry'[id] # 0 => now - job[registry'[id]].timestamp <= 1800000
         /\ registry[id] # 0 /\ Age(id) <= 1800000 => registry'[id] = registry[id]]_vars

\* C5 witness: a tick has removed a job that was still processing and has kept a
\* job aged exactly 30 minutes
C5_Witness ==
  /\ last.op = "cleanup"
  /\ last.removed >= 1
  /\ \E r \in 1..nsub : job[r].status = "processing" /\ registry[job[r].id] = 0
  /\ \E id \in AllIds : registry[id] # 0 /\ Age(id) = 1800000

\* C6: startLLMRequest hands the job id back in the step in which the routine
\* suspends at its first await (the cache read or the backend call), and what
\* it handed back is an id, never an error, whatever happens afterwards
C6_SubmitReturnsAtOnce ==
  [][/\ IsSubmit =>
          /\ reply'[nsub'] = job'[nsub'].id
          /\ reply'[nsub'] \in AllIds
          /\ pc'[nsub'] \in {"get_read", "claude", "openrouter", "sdk"}
          /\ job'[nsub'].status = "processing"
     /\ \A r \in 1..nsub : reply'[r] = reply[r] /\ reply[r] \in AllIds]_vars

\* C6 witness: the id was handed back although the backend call then failed
C6_Witness ==
  \E r \in 1..nsub :
    /\ reply[r] = job[r].id
    /\ pc[r] = "done"
    /\ job[r].result.error # ""

C8_CacheTTL ==
  [][IsGet =>
       LET key == createCacheKey(last'.url, last'.language)
           e == Lookup(cache, key)
           expiryDays == getSettings(settings).cacheExpiryDays
       IN e # NoEntry =>
            IF now - e.timestamp <= expiryDays * 86400000
            THEN last'.ret = e.response /\ cache' = cache
            ELSE /\ last'.ret = "null"
                 /\ key \notin Keys(cache')
                 /\ StatsSize(cache') = StatsSize(cache) - 1]_vars

\* C8 witness: a get found its entry expired, returned a miss and deleted it
C8_Witness == last.op = "get" /\ last.ret = "null" /\ last.removed = 1

\* C9: in every stored cache state the number of entries getStats() reports
\* is at most maxEntries
C9_CacheBound == StatsSize(cache) <= getSettings(settings).cacheMaxSize

\* C9 witness: a set has evicted an entry and left the cache full
C9_Witness ==
  /\ last.op = "set"
  /\ last.removed >= 1
  /\ StatsSize(cache) = getSettings(settings).cacheMaxSize

\* C10: after any sequence of set calls the keys retained are exactly the
\* maxEntries most recently inserted ones (a re-set is a new insertion)
C10_RetainsMostRecent ==
  setsOnly => Keys(cache) = LastN(recency, getSettings(settings).cacheMaxSize)

\* the step in which routine r answers its request from the cache
CacheHit(r) == pc[r] = "entry_read" /\ pc'[r] = "done"

\* C11: the payload the cache returns for a request was stored under exactly
\* the request's (url, language) key and was produced for the request's model
\* and language
C11_CacheKeyExact ==
  [][\A r \in Objs :
       CacheHit(r) =>
         /\ job'[r].result.summary = loc[r].entry.response
         /\ entryKey(loc[r].entry) = keyOf(r)
         /\ loc[r].entry.model = req[r].model]_vars

\* ============================================================ storage faults
\* chrome.storage.local.get / set / remove reject; every SummaryCache method and
\* getCacheEntry wraps its body in try / catch, getSettings has a catch of its own
FaultKey == <<"u1", "chinese">>

\* SummaryCache.get, the read of the cache record rejects: the catch returns null
CacheGetReadThrows(url, language) ==
  /\ last' = Op("get_fault_read", 0, url, language, "null", 0)
  /\ UNCHANGED <<now, settings, cacheVars, registryVars, chatVars>>

\* SummaryCache.get, the read of the settings rejects inside getSettings: its
\* catch returns the defaults and get goes on with them
CacheGetSettingsThrows(url, language) ==
  LET g == GetResult(cache, NoSettings, now, url, language)
  IN /\ Lookup(cache, createCacheKey(url, language)) # NoEntry
     /\ cache' = g.cache
     /\ setsOnly' = (setsOnly /\ g.cache = cache)
     /\ last' = Op("get_fault_settings", 0, url, language, g.ret, Len(cache) - Len(g.cache))
     /\ UNCHANGED <<now, settings, recency, nsets, registryVars, chatVars>>

\* SummaryCache.get of an expired entry, the read or the write of remove
\* rejects: the catch of remove swallows it, get returns null, the entry stays
CacheGetRemoveThrows(url, language) ==
  LET entry == Lookup(cache, createCacheKey(url, language))
  IN /\ entry # NoEntry
     /\ IsExpired(entry, now, getSettings(settings).cacheExpiryDays)
     /\ last' = Op("get_fault_remove", 0, url, language, "null", 0)
     /\ UNCHANGED <<now, settings, cacheVars, registryVars, chatVars>>

\* SummaryCache.set, the read or the write of the cache record rejects
CacheSetThrows(url, language, response, model) ==
  /\ last' = Op("set_fault", 0, url, language, response, 0)
  /\ UNCHANGED <<now, settings, cacheVars, registryVars, chatVars>>

\* SummaryCache.set, the read of the settings rejects: set goes on with the defaults
CacheSetSettingsThrows(url, language, response, model) ==
  /\ cache' = SetResult(cache, NoSettings, now, url, language, response, model)
  /\ setsOnly' = FALSE
  /\ last' = Op("set_fault_settings", 0, url, language, response,
                Len(Put(cache, createCacheKey(url, language), NoEntry)) - Len(cache'))
  /\ UNCHANGED <<now, settings, recency, nsets, registryVars, chatVars>>

\* SummaryCache.remove, its read or its write rejects
CacheRemoveThrows(url, language) ==
  /\ last' = Op("remove_fault", 0, url, language, "", 0)
  /\ UNCHANGED <<now, settings, cacheVars, registryVars, chatVars>>

\* SummaryCache.clear, chrome.storage.local.remove rejects
CacheClearThrows ==
  /\ last' = Op("clear_fault", 0, "", "", "", 0)
  /\ UNCHANGED <<now, settings, cacheVars, registryVars, chatVars>>

\* the same faults at the awaits of an orchestration routine
GetReadThrows(r) ==
  /\ pc[r] = "get_read"
  /\ pc' = [pc EXCEPT ![r] = BackendAwait(req[r].model)]
  /\ UNCHANGED <<cacheVars, registry, job, loc, routineFrame>>

GetSettingsThrows(r) ==
  /\ pc[r] = "get_settings"
  /\ pc' = [pc EXCEPT ![r] =
       IF IsExpired(loc[r].entry, now, DEFAULT_CACHE_EXPIRY_DAYS) THEN "rm_read"
       ELSE IF loc[r].entry.response # "" THEN "entry_read"
       ELSE BackendAwait(req[r].model)]
  /\ UNCHANGED <<cacheVars, registry, job, loc, routineFrame>>

RemoveThrows(r) ==
  /\ pc[r] \in {"rm_read", "rm_write"}
  /\ pc' = [pc EXCEPT ![r] = BackendAwait(req[r].model)]
  /\ loc' = [loc EXCEPT ![r].cache = <<>>]
  /\ UNCHANGED <<cacheVars, registry, job, routineFrame>>

\* getCacheEntry, the read rejects: its catch returns null, cachedAt is undefined
EntryReadThrows(r) ==
  /\ pc[r] = "entry_read"
  /\ ResumeProcess(r, Returned(Response(loc[r].entry.response, "", TRUE, -1)))
  /\ UNCHANGED <<cacheVars, routineFrame>>

SetReadThrows(r) ==
  /\ pc[r] = "set_read"
  /\ ResumeProcess(r, Returned(Response(loc[r].summary, "", FALSE, -1)))
  /\ UNCHANGED <<cacheVars, routineFrame>>

SetSettingsThrows(r) ==
  /\ pc[r] = "set_settings"
  /\ loc' = [loc EXCEPT ![r].cache = Evict(@, DEFAULT_MAX_CACHE_SIZE)]
  /\ pc' = [pc EXCEPT ![r] = "set_write"]
  /\ UNCHANGED <<cacheVars, registry, job, routineFrame>>

\* a set whose write rejects into callLLMAPI: no catch in SummaryCache.set
SetWriteThrows_uncaught(r) ==
  /\ pc[r] = "set_write"
  /\ ResumeProcess(r, CatchLLM("storage write failed"))
  /\ UNCHANGED <<cacheVars, routineFrame>>

SetWriteThrows(r) ==
  /\ pc[r] = "set_write"
  /\ ResumeProcess(r, Returned(Response(loc[r].summary, "", FALSE, -1)))
  /\ UNCHANGED <<cacheVars, routineFrame>>

\* summarize submissions over a storage that can reject any call; a day can pass
NextFault ==
  \/ \E request \in Requests : startLLMRequest(request, 0)
  \/ Tick(DAY_MS + 1)
  \/ \E r \in Objs : GetRead(r) \/ GetExpiry(r) \/ RemoveRead(r) \/ RemoveWrite(r)
                      \/ EntryRead(r) \/ SetRead(r) \/ SetEvict(r) \/ SetWrite(r)
  \/ \E r \in Objs : BackendThrows(r) \/ SdkThrows(r) \/ FallbackThrows(r)
  \/ \E r \in Objs : BackendReturns(r, Completion(r)) \/ SdkReturns(r, Completion(r))
                      \/ FallbackReturns(r, Completion(r))
  \/ \E r \in Objs : GetReadThrows(r) \/ GetSettingsThrows(r) \/ RemoveThrows(r)
                      \/ EntryReadThrows(r) \/ SetReadThrows(r) \/ SetSettingsThrows(r)
                      \/ SetWriteThrows(r)
  \/ CacheGetReadThrows(FaultKey[1], FaultKey[2])
  \/ CacheGetSettingsThrows(FaultKey[1], FaultKey[2])
  \/ CacheGetRemoveThrows(FaultKey[1], FaultKey[2])
  \/ CacheSetThrows(FaultKey[1], FaultKey[2], "s1", "openai")
  \/ CacheSetSettingsThrows(FaultKey[1], FaultKey[2], "s1", "openai")
  \/ CacheRemoveThrows(FaultKey[1], FaultKey[2])
  \/ CacheClearThrows

SpecFault == InitCache /\ [][NextFault]_vars

\* the step is a direct cache call recorded as op
IsDirect(op) == last'.op = op /\ UNCHANGED <<now, settings, pc, nsub>>
GetFaults == {"get_fault_read", "get_fault_settings", "get_fault_remove"}
WriteFaults == {"set_fault", "set_fault_settings", "remove_fault", "clear_fault"}
\* the step is a storage fault in routine r
FaultStep(r) ==
  \/ GetReadThrows(r) \/ GetSettingsThrows(r) \/ RemoveThrows(r) \/ EntryReadThrows(r)
  \/ SetReadThrows(r) \/ SetSettingsThrows(r) \/ SetWriteThrows(r)

\* C12 as stated: whichever storage call rejects, get returns a miss, set,
\* remove and clear store nothing, and a job whose cache call rejected ends with
\* the outcome of a backend call, without an error
C12_CacheFaultsAbsorbed ==
  [][/\ \A op \in GetFaults : IsDirect(op) => last'.ret = "null"
     /\ \A op \in WriteFaults : IsDirect(op) => cache' = cache
     /\ \A r \in Objs :
          FaultStep(r) /\ Finishes(r) =>
            /\ job'[r].status = "completed"
            /\ job'[r].result.error = ""
            /\ ~job'[r].result.fromCache]_vars

\* C12 amended: a rejected read or write of the cache record makes get return a
\* miss and makes set, remove and clear return without storing; a rejected read
\* of the settings makes get and set go on with the default settings; no job
\* gets an error from the cache: a job ends with an error only when its backend
\* call failed, and a job whose getCacheEntry read rejected ends with the
\* cached payload it had read, without cachedAt
C12_CacheFaultsAbsorbedAmended ==
  [][/\ \A op \in {"get_fault_read", "get_fault_remove"} :
          IsDirect(op) => last'.ret = "null" /\ cache' = cache
     /\ IsDirect("get_fault_settings") =>
          LET key == createCacheKey(last'.url, last'.language)
              e == Lookup(cache, key)
          IN IF now - e.timestamp <= 1 * 86400000
             THEN last'.ret = e.response /\ cache' = cache
             ELSE last'.ret = "null" /\ key \notin Keys(cache')
     /\ \A op \in {"set_fault", "remove_fault", "clear_fault"} :
          IsDirect(op) => cache' = cache
     /\ IsDirect("set_fault_settings") =>
          /\ Lookup(cache', createCacheKey(last'.url, last'.language)).response = last'.ret
          /\ StatsSize(cache') <= 100
     /\ \A r \in Objs :
          /\ Finishes(r) =>
               /\ job'[r].status = "completed"
               /\ job'[r].result.error # "" => BackendThrows(r) \/ FallbackThrows(r)
          /\ FaultStep(r) => cache' = cache
          /\ EntryReadThrows(r) =>
               job'[r].result = Response(loc[r].entry.response, "", TRUE, -1)
          /\ SetReadThrows(r) \/ SetWriteThrows(r) =>
               job'[r].result = Response(loc[r].summary, "", FALSE, -1)]_vars

\* C12 witness: a job whose getCacheEntry read rejected has ended with the
\* cached payload, another whose set was rejected has ended with its backend's
\* summary that is not in the cache, and a direct get whose settings read
\* rejected has returned a payload
C12_Witness ==
  /\ last.op = "get_fault_settings" /\ last.ret # "null"
  /\ \E r \in 1..nsub :
       pc[r] = "done" /\ job[r].result.fromCache /\ job[r].result.cachedAt = -1
  /\ \E r \in 1..nsub :
       /\ pc[r] = "done" /\ ~job[r].result.fromCache /\ req[r].url # ""
       /\ job[r].result.summary # ""
       /\ Lookup(cache, keyOf(r)).response # job[r].result.summary

\* =========================================================== resolution path
\* summarize submissions alone (no caller-supplied ids, no polls, no sweeper),
\* with entries aged exactly one day and one day and a millisecond
NextPath ==
  \/ \E request \in Requests : startLLMRequest(request, 0)
  \/ \E t \in CacheInstants : Tick(t)
  \/ \E r \in Objs : GetRead(r) \/ GetExpiry(r) \/ RemoveRead(r) \/ RemoveWrite(r)
                      \/ EntryRead(r) \/ SetRead(r) \/ SetEvict(r) \/ SetWrite(r)
  \/ \E r \in Objs : BackendThrows(r) \/ SdkThrows(r) \/ FallbackThrows(r)
  \/ \E r \in Objs : BackendReturns(r, Completion(r)) \/ SdkReturns(r, Completion(r))
                      \/ FallbackReturns(r, Completion(r))

\* the cache record a restarted worker finds: empty, or one entry stored at 0
StoredCaches == {<<>>, <<NewEntry("u1", "chinese", "s0", "openai", 0)>>}
InitPath == \E storedCache \in StoredCaches : InitFrom(NoSettings, storedCache)

SpecPath == InitPath /\ [][NextPath]_vars

\* the awaits of a backend call
BackendAwaits == {"claude", "openrouter", "sdk", "fallback"}
\* routine r moves on from the await it was suspended at
Leaves(r, await) == pc[r] = await /\ pc'[r] # await

\* C13: a summarize request with a url and forceFresh = false whose cache read
\* finds an entry for its (url, language) that is not expired completes with
\* that entry's payload and fromCache = true, without a backend call: from the
\* cache read the routine goes to the expiry test, to getCacheEntry and to the
\* end, never to an await of a backend
C13_CacheHitSkipsBackend ==
  [][/\ IsSubmit /\ req'[nsub'].url # "" /\ ~req'[nsub'].forceFresh => pc'[nsub'] = "get_read"
     /\ \A r \in Objs :
          /\ Leaves(r, "get_read") /\ Lookup(cache, keyOf(r)) # NoEntry =>
               pc'[r] = "get_settings" /\ loc'[r].entry = Lookup(cache, keyOf(r))
          /\ Leaves(r, "get_settings") /\ now - loc[r].entry.timestamp <= 1 * 86400000 =>
               pc'[r] = "entry_read"
          /\ Leaves(r, "entry_read") =>
               /\ pc'[r] = "done"
               /\ job'[r].status = "completed"
               /\ job'[r].result.summary = loc[r].entry.response
               /\ job'[r].result.fromCache
               /\ job'[r].result.error = ""]_vars

\* C13 witness: a job was answered from an entry aged exactly one day
C13_Witness ==
  \E r \in 1..nsub :
    /\ pc[r] = "done" /\ job[r].result.fromCache
    /\ job[r].result.summary = Lookup(cache, keyOf(r)).response
    /\ now - Lookup(cache, keyOf(r)).timestamp = 86400000

\* the awaits of the cache read of callLLMAPI
CacheReadAwaits == {"get_read", "get_settings", "rm_read", "rm_write", "entry_read"}

\* C14: a request with forceFresh = true goes straight to its backend call,
\* never through the cache read, also while a non-expired entry exists for
\* its (url, language), and its result never has fromCache = true
C14_ForceFreshBypassesCache ==
  [][/\ IsSubmit /\ req'[nsub'].forceFresh => pc'[nsub'] \in BackendAwaits
     /\ \A r \in Objs :
          req[r].forceFresh =>
            /\ pc'[r] \notin CacheReadAwaits
            /\ ~job'[r].result.fromCache]_vars

\* C14 witness: a forceFresh request is at its backend call while the cache
\* holds a non-expired entry for its key
C14_Witness ==
  \E r \in 1..nsub :
    /\ req[r].forceFresh /\ pc[r] \in BackendAwaits
    /\ Lookup(cache, keyOf(r)) # NoEntry
    /\ now - Lookup(cache, keyOf(r)).timestamp <= 86400000

\* C15: the entry of a key is created or overwritten only by the cache write of
\* a request with that url and language whose backend call returned a summary,
\* and it then holds that summary; a request whose backend call fails, a
\* request without a url and a request answered from the cache leave the
\* stored cache unchanged
C15_CacheWrittenOnSuccessOnly ==
  [][/\ \A k \in Keys(cache') :
          Lookup(cache', k) # Lookup(cache, k) =>
            \E r \in Objs :
              /\ SetWrite(r) /\ keyOf(r) = k
              /\ Lookup(cache', k).response = loc[r].summary
     /\ \A r \in Objs :
          \/ BackendThrows(r) \/ FallbackThrows(r) \/ EntryRead(r)
          \/ Finishes(r) /\ req[r].url = ""
          => cache' = cache]_vars

\* C16: a submission made while an unfinished job has the same url and
\* language creates a job of its own under an id different from that job's,
\* both stay registered, and every job that is not answered from the cache
\* ends with the completion (or the failure) of its own backend call
C16_NoDeduplication ==
  [][/\ IsSubmit =>
          \A q \in 1..nsub :
            /\ pc[q] # "done"
            /\ req[q].url = req'[nsub'].url /\ req[q].language = req'[nsub'].language
            => /\ job'[nsub'].id # job[q].id
               /\ registry'[job[q].id] = registry[job[q].id]
               /\ registry'[job'[nsub'].id] = nsub'
     /\ \A r \in Objs :
          Finishes(r) /\ ~job'[r].result.fromCache =>
            \/ job'[r].result.summary = Completion(r) /\ job'[r].result.error = ""
            \/ job'[r].result.summary = "" /\ job'[r].result.error # ""]_vars

\* =================================================================== progress
\* the pending storage or backend call of routine r returns or throws
RoutineStep(r) ==
  \/ GetRead(r) \/ GetExpiry(r) \/ RemoveRead(r) \/ RemoveWrite(r) \/ EntryRead(r)
  \/ SetRead(r) \/ SetEvict(r) \/ SetWrite(r)
  \/ BackendThrows(r) \/ SdkThrows(r) \/ FallbackThrows(r)
  \/ BackendReturns(r, Completion(r)) \/ SdkReturns(r, Completion(r))
  \/ FallbackReturns(r, Completion(r))

\* submissions, the sweeper and the clock; every call a routine awaits
\* eventually returns or throws
NextLive ==
  \/ \E request \in Requests, requestId \in CallerIds : startLLMRequest(request, requestId)
  \/ cleanupOldRequests
  \/ Tick(maxAge + 1) \/ Tick(DAY_MS + 1)
  \/ \E r \in Objs : RoutineStep(r)

SpecLive == Init /\ [][NextLive]_vars /\ \A r \in Objs : WF_vars(RoutineStep(r))

\* C17: every submitted job eventually ends completed or error, swept or not;
\* until the routine's last step it stays in processing, at a backend await in
\* particular, whatever the clock and the sweeper do, and an id leaves the
\* registry only by a cleanup tick
C17_JobsTerminate ==
  /\ \A r \in Objs :
       (pc[r] \notin {"unused", "done"}) ~> (pc[r] = "done" /\ job[r].status \in Terminal)
  /\ [](\A r \in Objs : pc[r] \notin {"unused", "done"} => job[r].status = "processing")
  /\ [][/\ \A r \in Objs :
            job[r].status = "processing" /\ job'[r].status # "processing" =>
              Finishes(r) /\ job'[r].status \in Terminal
        /\ \A r \in Objs : Finishes(r) => job'[r].status \in Terminal
        /\ \A id \in AllIds : registry[id] # 0 /\ registry'[id] = 0 => IsCleanup]_vars

\* C17 witness: a job older than maxAge that the sweeper has removed is still
\* processing, waiting for its backend
C17_Witness ==
  \E r \in 1..nsub :
    /\ pc[r] \in BackendAwaits /\ job[r].status = "processing"
    /\ now - job[r].timestamp > maxAge
    /\ registry[job[r].id] = 0
    /\ last.op = "cleanup"

\* ====================================================== processLargeContext
\* processLargeContext on every conversation of up to MaxMessages messages and
\* every budget, then once more on its own output
InitFit ==
  /\ InitService(NoSettings, <<>>)
  /\ \E messages \in Conversations(ContentLengths), maxTokens \in Budgets :
       fit = [pc |-> "input", messages |-> messages, maxTokens |-> maxTokens,
              out |-> <<>>, again |-> <<>>]

NextFit == ApplyFit \/ ApplyFitAgain

SpecFit == InitFit /\ [][NextFit]_vars

\* message `kept` is message `original` or a cut of it with '...' appended
IsKept(kept, original) ==
  /\ kept.role = original.role
  /\ \/ kept.content = original.content
     \/ \E k \in 0..length(original.content) :
          kept.content = concat(substring(original.content, k), Ellipsis)

\* the messages of `out` are messages of `messages`, in the order they have there
RECURSIVE InOrder(_, _)
InOrder(out, messages) ==
  \/ out = <<>>
  \/ /\ messages # <<>>
     /\ \/ IsKept(Head(out), Head(messages)) /\ InOrder(Tail(out), Tail(messages))
        \/ InOrder(out, Tail(messages))

\* C19: the output of processLargeContext lists the kept messages in their
\* original order, and a leading system message of the input is the first
\* element of the output
C19_OrderPreserved ==
  fit.pc \in {"once", "twice"} =>
    /\ InOrder(fit.out, fit.messages)
    /\ fit.messages # <<>> /\ fit.messages[1].role = "system" =>
         fit.out # <<>> /\ fit.out[1] = fit.messages[1]

\* C20: processLargeContext applied to its own output with the same budget
\* returns that output
C20_Idempotent == fit.pc = "twice" => fit.again = fit.out

\* ============================================================= chat routing
\* a chat call of any model and conversation, followed through its backend calls
\* the texts a completion call of the chat path can return
Completions == {"s1", "s2"}

NextConv ==
  \/ \E model \in ChatModels, tabId \in Tabs \cup {0},
        messages \in Conversations(LargeLengths) : callChatAPI(model, tabId, messages)
  \/ (\E summary \in Completions : ChatSdkReturns(summary)) \/ ChatSdkThrows
  \/ (\E summary \in Completions : ChatFallbackReturns(summary)) \/ ChatFallbackThrows
  \/ SummaryAnswered(FALSE) \/ SummaryAnswered(TRUE)
  \/ SingleCallReturns("s1") \/ SingleCallThrows

SpecConv == Init /\ [][NextConv]_vars

\* ceil(total content characters / 4) of the conversation of the chat call
ConvTokens == (totalLength(conv.messages) + 3) \div 4

\* C18: whatever the model, a chat call takes the chunked path (the conversation
\* is cut into chunks) if and only if the estimate of its conversation is above
\* 100,000 tokens, and otherwise the direct path: the messages fitted to the
\* budget go to one completion call, whose answer is the reply
C18_ThresholdRouting ==
  conv.pc # "idle" =>
    /\ conv.chunkedMessages # <<>> <=> ConvTokens > LARGE_CONTEXT_TOKENS
    /\ ConvTokens <= LARGE_CONTEXT_TOKENS =>
         /\ conv.sent = processLargeContext(conv.messages, DEFAULT_MAX_TOKENS)
         /\ conv.i = 0

\* the routing C18 states, for model 'portkey' alone
PortkeyRouting == conv.model = "portkey" => C18_ThresholdRouting

\* ======================================================== chunkLargeContext
\* chunkLargeContext on every conversation of up to MaxMessages messages
InitChunk ==
  /\ InitService(NoSettings, <<>>)
  /\ \E messages \in Conversations(ChunkLengths) :
       fit = [pc |-> "input", messages |-> messages, maxTokens |-> 0,
              out |-> <<>>, again |-> <<>>]

NextChunk == ApplyChunk

SpecChunk == InitChunk /\ [][NextChunk]_vars

\* the chunks one after the other
RECURSIVE Flatten(_)
Flatten(chunks) == IF chunks = <<>> THEN <<>> ELSE Head(chunks) \o Flatten(Tail(chunks))

\* C21: the chunks of chunkLargeContext, concatenated in order, are the message
\* list it was given, and no chunk is empty
C21_ChunksCoverInput ==
  fit.pc = "chunked" =>
    /\ Flatten(fit.out) = fit.messages
    /\ \A k \in 1..Len(fit.out) : fit.out[k] # <<>>

\* C21 witness: a conversation cut into more than one chunk, one of them with
\* more than one message
C21_Witness ==
  /\ fit.pc = "chunked" /\ Len(fit.out) > 1
  /\ \E k \in 1..Len(fit.out) : Len(fit.out[k]) > 1

\* ========================================================= Portkey fallback
\* the summarize calls: a routine gets to the raw fetch client only by a failure
\* of its SDK call, and a Portkey job ends at one of the two clients
SummarizeFallback ==
  \A r \in Objs :
    /\ pc[r] # "fallback" /\ pc'[r] = "fallback" => SdkThrows(r)
    /\ pc[r] = "sdk" /\ pc'[r] # "sdk" => SdkThrows(r) \/ SdkReturns(r, Completion(r))

\* the chat call: the raw fetch client is called (the completion fallback or the
\* summary of the earlier chunks) only by a failure of the SDK call, and an
\* error is the reply only when the raw client has failed too
ChatFallback ==
  /\ conv'.pc \in {"fallback", "summary"} /\ conv'.pc # conv.pc => ChatSdkThrows
  /\ conv.model = "portkey" /\ conv.pc # "done" /\ conv'.pc = "done" =>
       (conv'.reply.error # "" <=> ChatFallbackThrows)

\* C22: in every Portkey call, summarize or chat, the raw fetch client is called
\* if and only if the SDK client has failed, and an error reaches the caller
\* only when both have failed
C22_FallbackIffSdkFailed == [][SummarizeFallback /\ ChatFallback]_vars

\* the summarize half of C22 alone
SummarizeFallbackOnly == [][SummarizeFallback]_vars

\* ====================================================== conversation context
\* the conversations the context claims are checked with
ContextLists ==
  {<<>>,
   <<[role |-> "user", content |-> Repeat("a", 1)]>>,
   <<[role |-> "user", content |-> Repeat("a", 1)],
     [role |-> "assistant", content |-> Repeat("b", 8)]>>}

\* chat calls one after the other, with and without a tab id, and the context
\* queries and clears of the message handler in between and during a call
NextContext ==
  \/ \E model \in {"portkey", "openai"}, tabId \in Tabs \cup {0}, messages \in ContextLists :
        callChatAPI(model, tabId, messages)
  \/ ChatSdkReturns("s1") \/ ChatSdkThrows
  \/ ChatFallbackReturns("s1") \/ ChatFallbackThrows
  \/ SingleCallReturns("s1") \/ SingleCallThrows
  \/ sendResponse
  \/ \E tabId \in Tabs : getConversationContext(tabId)
  \/ \E tabId \in Tabs : clearConversationContext(tabId)
  \/ clearAllConversationContexts

SpecContext == Init /\ [][NextContext]_vars

\* the step is a chat submission
IsChatSubmit == conv.pc = "idle" /\ conv'.pc # "idle"
\* the step is one of the two clears
IsClear(t) ==
  /\ \/ last'.op = "clearConversationContext" /\ last'.id = t
     \/ last'.op = "clearAllConversationContexts"
  /\ UNCHANGED <<conv, chat, popup>>

\* C23: a chat submission with a tab id makes its message list the context of
\* that tab, replacing what was there; the context of a tab changes by nothing
\* but a submission for that tab or a clear, a backend failure included; and
\* getConversationContext returns the context of the tab as it is
C23_ContextIsLatestSubmission ==
  [][\A t \in Tabs :
       /\ IsChatSubmit /\ conv'.tabId = t => contexts'[t] = <<conv'.messages>>
       /\ contexts'[t] # contexts[t] => (IsChatSubmit /\ conv'.tabId = t) \/ IsClear(t)
       /\ last'.op = "getConversationContext" /\ last'.id = t /\ last' # last =>
            last'.ret = contexts[t] /\ UNCHANGED contexts]_vars

\* C23 witness: the context of tab 7 is the list of the latest submission,
\* whose backend call has failed, the other tab holds another context, and a
\* query for tab 7 has returned the list
C23_Witness ==
  /\ conv.pc = "done" /\ conv.reply.error # "" /\ conv.tabId = 7
  /\ conv.messages = <<[role |-> "user", content |-> Repeat("a", 1)]>>
  /\ contexts[7] = <<conv.messages>>
  /\ contexts[8] # <<>> /\ contexts[8] # contexts[7]
  /\ last.op = "getConversationContext" /\ last.id = 7 /\ last.ret = <<conv.messages>>

\* ============================================================ cache validity
\* C24: with default settings (no stored cacheExpiryDays) SummaryCache.get
\* returns a stored summary at every time up to 7 days after it was stored
C24_ValidSevenDays ==
  [][IsGet /\ settings = NoSettings =>
       LET e == Lookup(cache, createCacheKey(last'.url, last'.language))
       IN e # NoEntry /\ now - e.timestamp <= 7 * DAY_MS => last'.ret = e.response]_vars

\* ======================================================= cache interleavings
\* routine r has finished with a backend response that its SummaryCache.set wrote
HasStored(r) ==
  /\ pc[r] = "done" /\ req[r].url # "" /\ job[r].status = "completed"
  /\ ~job[r].result.fromCache /\ job[r].result.summary # "" /\ job[r].result.error = ""

\* C25: once two SummaryCache.set calls for different keys have both finished,
\* overlapping or not, both entries are in the cache (no entry has expired and
\* maxEntries is not reached)
C25_OverlappingSetsKeepBoth ==
  \A r, q \in 1..nsub :
    /\ r # q /\ keyOf(r) # keyOf(q)
    /\ HasStored(r) /\ HasStored(q)
    /\ now <= 1
    => {keyOf(r), keyOf(q)} \subseteq Keys(cache)

\* C26: the remove that SummaryCache.get makes for an expired entry deletes that
\* entry only: every other entry the cache holds when the remove writes, a
\* fresh one under the same key included, is in the cache afterwards
C26_ExpiryRemovesOnlyWhatItRead ==
  [][\A r \in Objs :
       pc[r] = "rm_write" /\ pc'[r] # "rm_write" =>
         \A k \in Keys(cache) :
           Lookup(cache, k) # loc[r].entry => Lookup(cache', k) = Lookup(cache, k)]_vars

\* C27: a result with fromCache = true carries a cachedAt, and it is the
\* createdAt of the entry whose payload is returned, whatever other cache
\* operations ran between the payload read and the timestamp read
C27_CachedAtOfReturnedEntry ==
  [][\A r \in Objs :
       Finishes(r) /\ job'[r].result.fromCache =>
         /\ job'[r].result.summary = loc[r].entry.response
         /\ job'[r].result.cachedAt = loc[r].entry.timestamp]_vars

\* ======================================================== status at submit
\* C28 as stated: when startLLMRequest returns, the job it inserted is pending
C28_PendingAfterSubmit == [][IsSubmit => job'[nsub'].status = "pending"]_vars

\* C28 amended: when startLLMRequest returns, the job it inserted is registered
\* and already processing; no job is pending in any state, and no poll has
\* returned pending
C28_ProcessingAfterSubmit ==
  /\ [][IsSubmit =>
          /\ job'[nsub'].status = "processing"
          /\ registry'[job'[nsub'].id] = nsub']_vars
  /\ [](/\ \A r \in 1..nsub : job[r].status # "pending"
        /\ \A id \in AllIds : lastSeen[id] # "pending")

\* C28 witness: the poll right after the submission, with the routine still at
\* its first await, returned processing
C28_Witness ==
  /\ nsub = 1 /\ pc[1] = FirstAwait(req[1])
  /\ lastSeen[reply[1]] = "processing"

\* ================================================== budget of the direct path
\* the tokens available for the history
Available(maxTokens) == maxTokens - maxTokens \div 3

NonSystem(messages) == SelectSeq(messages, LAMBDA m : m.role # "system")

\* the walk C29 describes over the messages newest first, returned oldest
\* first: a message that fits is kept whole, the first that does not is cut to
\* the remaining tokens * 4 characters plus '...', and the walk ends
RECURSIVE Walk(_, _, _)
Walk(newestFirst, keptCost, maxTokens) ==
  IF newestFirst = <<>> THEN <<>>
  ELSE LET m == Head(newestFirst)
           cost == (length(m.content) + 3) \div 4
           remaining == Available(maxTokens) - keptCost
       IN IF keptCost + cost <= Available(maxTokens)
          THEN Walk(Tail(newestFirst), keptCost + cost, maxTokens) \o <<m>>
          ELSE <<[role |-> m.role,
                  content |-> concat(substring(m.content, remaining * 4), Ellipsis)]>>

\* the cost of the leading system message, which is always kept
SystemCost(messages) ==
  IF messages # <<>> /\ messages[1].role = "system"
  THEN (length(messages[1].content) + 3) \div 4 ELSE 0

\* C29: the non-system messages of the output of processLargeContext are those
\* of the walk from newest to oldest: whole while they fit the available
\* budget, the first that does not fit cut and kept, none older than it
C29_WalkNewestFirst ==
  fit.pc \in {"once", "twice"} =>
    NonSystem(fit.out) =
      Walk(Reverse(NonSystem(fit.messages)), SystemCost(fit.messages), fit.maxTokens)

\* the step applies processLargeContext to a conversation whose first message
\* is a system message
AppliesToSystemFirst ==
  fit.pc = "input" /\ fit'.pc = "once" /\ SystemCost(fit.messages) > 0

\* the walk of C29 for the conversations that start with a system message
WalkAfterSystem ==
  [][AppliesToSystemFirst =>
       NonSystem(fit'.out) =
         Walk(Reverse(NonSystem(fit.messages)), SystemCost(fit.messages), fit.maxTokens)]_vars

\* the estimated cost of all messages
RECURSIVE TotalCost(_)
TotalCost(messages) ==
  IF messages = <<>> THEN 0
  ELSE (length(Head(messages).content) + 3) \div 4 + TotalCost(Tail(messages))

\* C30: when the cost of all input messages is within the available budget,
\* processLargeContext returns every input message, none cut and none dropped
C30_AllKeptWhenWithinBudget ==
  fit.pc \in {"once", "twice"} /\ TotalCost(fit.messages) <= Available(fit.maxTokens) =>
    /\ Len(fit.out) = Len(fit.messages)
    /\ \A i \in 1..Len(fit.messages) : \E j \in 1..Len(fit.out) : fit.out[j] = fit.messages[i]

\* C30 for the conversations that start with a system message
AllKeptAfterSystem ==
  SystemCost(fit.messages) > 0 => C30_AllKeptWhenWithinBudget

\* C31: when the system message alone fits the available budget, the estimated
\* cost of the whole output of processLargeContext, the appended '...' included,
\* is at most maxTokens - floor(maxTokens / 3)
C31_OutputWithinBudget ==
  fit.pc \in {"once", "twice"} /\ SystemCost(fit.messages) <= Available(fit.maxTokens) =>
    TotalCost(fit.out) <= Available(fit.maxTokens)

\* C32: a leading system message of the input is in the output of
\* processLargeContext with its content unchanged, whatever maxTokens is
C32_SystemMessageKept ==
  fit.pc \in {"once", "twice"} /\ SystemCost(fit.messages) > 0 =>
    \E j \in 1..Len(fit.out) : fit.out[j] = fit.messages[1]

\* C32 witness: the system message costs more than the whole available budget
\* and is in the output, next to a later message cut to '...'
C32_Witness ==
  /\ fit.pc = "once" /\ SystemCost(fit.messages) > Available(fit.maxTokens)
  /\ Len(fit.messages) > 1
  /\ \E j \in 1..Len(fit.out) : fit.out[j] = fit.messages[1]
  /\ \E j \in 1..Len(fit.out) : fit.out[j].content = Ellipsis

ChunkInFlight ==
  conv.path = "chunked" /\ conv.pc \in {"sdk", "fallback"} =>
    /\ conv.i \in 1..Len(conv.chunkedMessages)
    /\ \E summary \in {<<>>, ChunkSummary} :
         conv.sent = processLargeContext(
                       integrateSummaryWithChunk(conv.chunkedMessages[conv.i], summary),
                       DEFAULT_MAX_TOKENS)

\* a step of the chunked path: the chunk index starts at 1 and moves by one,
\* only when the completion of the chunk in flight returns; the completion of
\* the last chunk, and of no other, becomes the reply
ChunkStep ==
  /\ conv.pc = "idle" /\ conv'.path = "chunked" => conv'.i = 1
  /\ conv.path = "chunked" =>
       /\ conv'.i \in {conv.i, conv.i + 1}
       /\ conv'.i = conv.i + 1 =>
            \E summary \in Completions : ChatSdkReturns(summary) \/ ChatFallbackReturns(summary)
       /\ \A summary \in Completions :
            ChatSdkReturns(summary) \/ ChatFallbackReturns(summary) =>
              IF conv.i = Len(conv.chunkedMessages)
              THEN conv'.pc = "done" /\ conv'.reply.summary = summary /\ conv'.reply.error = ""
              ELSE conv'.pc # "done" /\ conv'.i = conv.i + 1

\* C34: on the chunked path the chunks go to their completion calls in list
\* order, one call in flight at a time, the call for the next chunk starts only
\* after the call for the chunk before it has returned, and the reply is the
\* completion of the last chunk
C34_ChunksInOrder == [][ChunkStep]_vars /\ []ChunkInFlight

\* C34 witness: three chunks were processed, and the reply is the text "s2" the
\* completion of the third returned
C34_Witness ==
  /\ conv.path = "chunked" /\ conv.pc = "done" /\ Len(conv.chunkedMessages) = 3
  /\ conv.i = 3 /\ conv.reply.summary = "s2"

\* C35: when the summary call made before a chunk fails, the chunk goes to its
\* completion call with no summary message in front, and the loop goes on
C35_FailedSummarySkipped ==
  [][SummaryAnswered(TRUE) =>
       /\ conv'.pc = "sdk" /\ conv'.i = conv.i
       /\ conv'.sent = processLargeContext(conv.chunkedMessages[conv.i], DEFAULT_MAX_TOKENS)]_vars

\* C36: a Portkey chat call with an empty message list ends with an error reply
\* and no summary
C36_EmptyListFails ==
  conv.model = "portkey" /\ conv.messages = <<>> /\ conv.pc = "done" =>
    conv.reply.error # "" /\ conv.reply.summary = ""

\* ============================================================ cache limits
\* the settings records of StoredSettings and one with negative numbers, which
\* the number inputs of the settings page store as typed
AnySettings == StoredSettings \cup {[cacheMaxSize |-> -1, cacheExpiryDays |-> -1]}

InitSettings == \E stored \in AnySettings : InitWith(stored)

SpecSettings == InitSettings /\ [][NextCache]_vars

\* C37: whatever the stored settings record holds, the limits that get and set
\* work with are at least 1: one entry and one day
C37_LimitsAtLeastOne ==
  last.op \in {"get", "set"} =>
    /\ getSettings(settings).cacheMaxSize >= 1
    /\ getSettings(settings).cacheExpiryDays >= 1

\* with a negative entry limit a set call leaves the cache empty, its own entry
\* gone with the rest
SetStoresNothing == last.op = "set" /\ cache = <<>>

\* ================================================================= polling
\* everything but what the client has seen: the registry and its jobs, the
\* routines with the backend calls they are at, the cache, the clock
unpolled == <<now, settings, cacheVars, registry, job, req, pc, loc, nsub, reply,
              chatVars, last>>

\* the steps of the service when no client ever polls
NextSilent ==
  \/ \E request \in Requests, requestId \in CallerIds : startLLMRequest(request, requestId)
  \/ cleanupOldRequests
  \/ \E t \in RegistryInstants : Tick(t)
  \/ \E r \in Objs : GetRead(r) \/ GetExpiry(r) \/ EntryRead(r)
                      \/ SetRead(r) \/ SetEvict(r) \/ SetWrite(r)
  \/ \E r \in Objs : BackendThrows(r) \/ SdkThrows(r) \/ FallbackThrows(r)
  \/ \E r \in Objs : BackendReturns(r, Completion(r)) \/ SdkReturns(r, Completion(r))
                      \/ FallbackReturns(r, Completion(r))

SpecSilent == Init /\ [][NextSilent]_vars

\* C38: getRequestStatus changes nothing. Whenever and however often the
\* client polls, the registry, the backend calls and the cache move only by the
\* steps the service takes when nobody polls: a run with polls, seen without
\* the client's view, is a run without polls
C38_PollingChangesNothing == [][NextSilent]_unpolled

\* C38 witness: of two jobs one was polled while it was processing and never
\* again, the other was never polled, and both are completed
C38_Witness ==
  /\ nsub = 2 /\ reply[1] # reply[2]
  /\ lastSeen[reply[1]] = "processing" /\ lastSeen[reply[2]] = "none"
  /\ StatusOf(reply[1]) = "completed" /\ StatusOf(reply[2]) = "completed"

\* ==================================================================== popup
NextPopup ==
  \/ onClickCancel
  \/ \E k \in Activations : summarizeCurrentPage(k) \/ TabLoaded(k) \/ Extracted(k)
                            \/ ExtractFails(k) \/ Started(k) \/ Saved(k)
  \/ \E k \in Activations : JobEnds(k, "completed") \/ JobEnds(k, "error") \/ JobRemoved(k)
  \/ \E k \in Activations : TimerFires(k) \/ StatusReply(k)

SpecPopup == Init /\ [][NextPopup]_vars

\* at most one interval timer is set
OneTimer == Cardinality(popup.timers) <= 1

\* a newer summarize request than request k has started
NewerStarted(k) == \E j \in Activations : j > k /\ popup.run[j] # "idle"

\* a status reply for a request after which a newer one has started changes
\* neither the summary nor the error on display, and the timers of the newer
\* requests stay set
StaleReplyIgnored ==
  \A k \in Activations :
    StatusReply(k) /\ NewerStarted(k) =>
      /\ popup'.summary = popup.summary /\ popup'.error = popup.error
      /\ \A j \in popup.timers : j > k => j \in popup'.timers

\* C39: the popup has at most one poll timer set at a time, and a status reply
\* for an earlier request id that comes after a newer summarize request has
\* started neither sets the summary or the error on display nor stops the
\* polling of the newer request
C39_StaleReplyHarmless == []OneTimer /\ [][StaleReplyIgnored]_vars

\* the first half of C39 alone
OneTimerOnly == []OneTimer

\* the stale reply stops the polling of the newer request
StaleReplyKeepsTimer ==
  [][\A k \in Activations :
       StatusReply(k) /\ NewerStarted(k) =>
         \A j \in popup.timers : j > k => j \in popup'.timers]_vars

====
